---- MODULE Spec2Model ----
(***************************************************************************)
(* Model of src/main.py: the Flask application that receives WhatsApp      *)
(* voice messages on POST /webhook, downloads and decodes the audio,       *)
(* transcribes it and replies through Twilio, plus the POST /status        *)
(* callback and the validate_twilio_request decorator.                     *)
(*                                                                         *)
(* Text is modelled as sequences of one-character strings, so that         *)
(* str.split, the `in` substring test and int() are computed as Python     *)
(* computes them.  Each request is served by its own handler thread; the   *)
(* two temporary files are the only state the threads share.               *)
(***************************************************************************)
EXTENDS Integers, Sequences, FiniteSets, TLC

\* The fields of the records of the model, in the one order in which every
\* record below lists them.
RecordFields ==
    [pc |-> 1, local |-> 2, resp |-> 3, audio |-> 4, body |-> 5,
     busy |-> 6, by |-> 7, code |-> 8, content |-> 9, count |-> 10,
     data |-> 11, err |-> 12, exists |-> 13, file |-> 14, form |-> 15,
     headers |-> 16, incoming_msg |-> 17, media_type |-> 18,
     media_url |-> 19, num_media |-> 20, ok |-> 21, op |-> 22,
     sender |-> 23, sid |-> 24, st |-> 25, text |-> 26, to |-> 27,
     transcription |-> 28, url |-> 29, val |-> 30]

\* Number of handler threads (one request each) in the concurrent model.
NumHandlers == 2

Handlers == 1..NumHandlers

VARIABLES req, pc, local, resp, calls, disk, status

vars == <<req, pc, local, resp, calls, disk, status>>

----------------------------------------------------------------------------
\* Text constants

\* Marks a form field or header that the request does not carry.
Absent == <<"<absent>">>

EmptyStr == <<>>

S_whatsapp == <<"w","h","a","t","s","a","p","p">>
S_audio == <<"a","u","d","i","o">>
S_hello == <<"h","e","l","l","o">>
S_audio_ogg == <<"a","u","d","i","o","/","o","g","g">>
S_Audio_OGG == <<"A","u","d","i","o","/","O","G","G">>
S_image_png == <<"i","m","a","g","e","/","p","n","g">>
S_media_url == <<"h","t","t","p","s",":","/","/","m","/","1">>
S_webhook_url == <<"h","t","t","p","s",":","/","/","a","/","w","e","b","h","o","o","k">>
S_forged == <<"f","o","r","g","e","d">>

TEMP_OGG == "temp_audio.ogg"
TEMP_WAV == "temp_audio.wav"
TempFiles == {TEMP_OGG, TEMP_WAV}

----------------------------------------------------------------------------
\* Python built-ins used by the handler

\* s.split(sep) for a one-character separator: the list of segments.
RECURSIVE Split(_, _)
Split(s, sep) ==
    IF \A i \in 1..Len(s) : s[i] # sep
    THEN <<s>>
    ELSE LET k == CHOOSE i \in 1..Len(s) :
                      s[i] = sep /\ \A j \in 1..(i - 1) : s[j] # sep
         IN <<SubSeq(s, 1, k - 1)>> \o Split(SubSeq(s, k + 1, Len(s)), sep)

\* sub in s
Contains(sub, s) ==
    \E i \in 1..(Len(s) - Len(sub) + 1) : SubSeq(s, i, i + Len(sub) - 1) = sub

Digits == {"0","1","2","3","4","5","6","7","8","9"}

DigitVal(c) ==
    CASE c = "0" -> 0 [] c = "1" -> 1 [] c = "2" -> 2 [] c = "3" -> 3
      [] c = "4" -> 4 [] c = "5" -> 5 [] c = "6" -> 6 [] c = "7" -> 7
      [] c = "8" -> 8 [] c = "9" -> 9

RECURSIVE DigitsVal(_)
DigitsVal(s) ==
    IF s = <<>> THEN 0
    ELSE 10 * DigitsVal(SubSeq(s, 1, Len(s) - 1)) + DigitVal(s[Len(s)])

\* Variant: text that is not a numeral counts as zero instead of raising.
ParseInt_lenient(s) == [ok |-> TRUE, val |-> 0]

\* int(s) for a str: optional sign, then one or more digits; anything else
\* raises ValueError (ok = FALSE).
ParseInt(s) ==
    LET signed == Len(s) > 0 /\ s[1] \in {"+", "-"}
        body == IF signed THEN SubSeq(s, 2, Len(s)) ELSE s
        good == Len(body) > 0 /\ \A i \in 1..Len(body) : body[i] \in Digits
    IN  IF ~good THEN [ok |-> FALSE, val |-> 0]
        ELSE [ok |-> TRUE,
              val |-> IF signed /\ s[1] = "-" THEN 0 - DigitsVal(body)
                      ELSE DigitsVal(body)]

\* request.values.get(key, default) and request.headers.get(key, default)
Get(m, key, default) == IF key \in DOMAIN m THEN m[key] ELSE default

----------------------------------------------------------------------------
\* Requests

FormKeys == {"Body", "From", "NumMedia", "MediaContentType0", "MediaUrl0",
             "MediaContentType1"}

\* The form of a request: a field set to Absent is not sent at all.
MkForm(body, from, num, ctype, url, ctype1) ==
    LET v == [k \in FormKeys |->
                 CASE k = "Body" -> body
                   [] k = "From" -> from
                   [] k = "NumMedia" -> num
                   [] k = "MediaContentType0" -> ctype
                   [] k = "MediaUrl0" -> url
                   [] k = "MediaContentType1" -> ctype1]
    IN  [k \in {x \in FormKeys : v[x] # Absent} |-> v[k]]

MkHeaders(sig) ==
    [k \in (IF sig = Absent THEN {} ELSE {"X-Twilio-Signature"}) |-> sig]

MkRequest(form, sig) == [form |-> form, headers |-> MkHeaders(sig), url |-> S_webhook_url]

NoRequest == [form |-> <<>>, headers |-> <<>>, url |-> EmptyStr]

\* RequestValidator.compute_signature: the URL followed by every form key and
\* value in sorted key order, signed under TWILIO_AUTH_TOKEN.  The keyed
\* digest is kept symbolic: the signed text tagged with the key.
SortedKeys ==
    <<"Body", "From", "MediaContentType0", "MediaContentType1", "MediaUrl0", "NumMedia">>

RECURSIVE CanonicalParams(_, _)
CanonicalParams(form, i) ==
    IF i > Len(SortedKeys) THEN <<>>
    ELSE (IF SortedKeys[i] \in DOMAIN form
          THEN <<SortedKeys[i]>> \o form[SortedKeys[i]]
          ELSE <<>>) \o CanonicalParams(form, i + 1)

compute_signature(url, form) ==
    <<"hmac:TWILIO_AUTH_TOKEN">> \o url \o CanonicalParams(form, 1)

\* RequestValidator.validate(url, params, signature)
validate(url, form, signature) == signature = compute_signature(url, form)

\* The signatures a request with this form may arrive with: none, the
\* provider's, a forged one.
SigChoices(form) == {Absent, compute_signature(S_webhook_url, form), S_forged}

BodyValues == {Absent, S_hello}
FromValues == {Absent, S_whatsapp,
               S_whatsapp \o <<":", "+", "1">>,
               S_whatsapp \o <<":", "+", "1", ":", "2">>}
NumMediaValues == {Absent, <<"0">>, <<"1">>, <<"2">>, <<"-", "1">>, <<"1", "x">>}
ContentTypeValues == {Absent, S_audio_ogg, S_image_png, S_Audio_OGG}
MediaUrlValues == {Absent, S_media_url}
\* The content type of a second media item, when the message has one.
SecondTypeValues == {Absent, S_audio_ogg}

AllForms ==
    {MkForm(b, f, n, t, u, t1) : b \in BodyValues, f \in FromValues,
        n \in NumMediaValues, t \in ContentTypeValues, u \in MediaUrlValues,
        t1 \in SecondTypeValues}

AllRequests ==
    UNION {{MkRequest(fm, s) : s \in SigChoices(fm)} : fm \in AllForms}

\* The requests of the concurrent model: a voice note, a text message, a
\* message without From and one with a malformed media count.
ConcForms ==
    {MkForm(Absent, S_whatsapp \o <<":", "+", "1">>, <<"1">>, S_audio_ogg, S_media_url, Absent),
     MkForm(S_hello, S_whatsapp \o <<":", "+", "1">>, <<"0">>, Absent, Absent, Absent),
     MkForm(S_hello, Absent, Absent, Absent, Absent, Absent),
     MkForm(Absent, S_whatsapp \o <<":", "+", "1">>, <<"1", "x">>, S_audio_ogg, S_media_url, Absent)}

ConcRequests == {MkRequest(fm, compute_signature(S_webhook_url, fm)) : fm \in ConcForms}

----------------------------------------------------------------------------
\* Data

\* Audio bytes: `by` is the handler whose download produced them (0: a run
\* before the ones modelled), `ok` whether they decode as Ogg.
NoData == [by |-> 0, ok |-> FALSE]

NoFile == [data |-> NoData, exists |-> FALSE]

File(d) == [data |-> d, exists |-> TRUE]

DigitChar(n) ==
    CASE n = 0 -> "0" [] n = 1 -> "1" [] n = 2 -> "2" [] n = 3 -> "3"
      [] n = 4 -> "4" [] OTHER -> "9"

\* model.transcribe(...)["text"]: the text spoken in the audio.
whisper_text(d) == <<"t", "e", "x", "t", DigitChar(d.by)>>

NoLocal ==
    [audio |-> NoData, content |-> NoData, incoming_msg |-> EmptyStr,
     media_type |-> EmptyStr, media_url |-> EmptyStr, num_media |-> 0,
     sender |-> EmptyStr, transcription |-> EmptyStr]

NoResp == [body |-> "", code |-> 0]

\* One entry of a handler's trace of outside effects.
Call(op, file, data, text, to, err) ==
    [data |-> data, err |-> err, file |-> file, op |-> op, text |-> text, to |-> to]

\* str(e) of the exceptions the pipeline meets
E_IndexError == "list index out of range"
E_ValueError == "invalid literal for int() with base 10"
E_ConnectionError == "ConnectionError: failed to establish a connection"
E_MissingSchema == "MissingSchema: Invalid URL: No scheme supplied"
E_HTTPError == "HTTPError: 404 Client Error"
E_UnboundLocalError == "local variable 'response' referenced before assignment"
E_CouldntDecode == "CouldntDecodeError: Decoding failed"
E_FileNotFound == "FileNotFoundError: [Errno 2] No such file or directory"
E_Transcribe == "RuntimeError: Failed to load audio"
E_Twilio == "TwilioRestException: Unable to create record"

----------------------------------------------------------------------------
\* Entry of the handlers

Response(code, body) == [body |-> body, code |-> code]

\* Variant: a media count of zero also enters the media branch.
has_media_from_zero(num_media) == num_media >= 0

\* if num_media > 0:
has_media(num_media) == num_media > 0

\* Variant: any media type at all is taken for audio.
is_audio_any_type(media_type) == media_type # EmptyStr

\* if 'audio' in media_type:
is_audio(media_type) == Contains(S_audio, media_type)

\* Variant: when the first item is not audio, the second item is looked at.
any_media_type(form) ==
    IF Contains(S_audio, Get(form, "MediaContentType0", EmptyStr))
    THEN Get(form, "MediaContentType0", EmptyStr)
    ELSE Get(form, "MediaContentType1", EmptyStr)

\* media_type = request.values.get('MediaContentType0', '')
first_media_type(form) == Get(form, "MediaContentType0", EmptyStr)

\* webhook(), from its first line to the call of download_audio: the fields
\* are read, and the request either ends here or enters the audio pipeline.
webhook_entry(q) ==
    LET incoming_msg == Get(q.form, "Body", EmptyStr)
        parts == Split(Get(q.form, "From", EmptyStr), ":")
        num == IF "NumMedia" \in DOMAIN q.form
               THEN ParseInt(q.form["NumMedia"])
               ELSE [ok |-> TRUE, val |-> 0]
        media_type == first_media_type(q.form)
        media_url == Get(q.form, "MediaUrl0", EmptyStr)
        l1 == [NoLocal EXCEPT !.incoming_msg = incoming_msg]
    IN  IF Len(parts) < 2
        THEN [pc |-> "done", local |-> l1, resp |-> Response(500, E_IndexError)]
        ELSE LET l2 == [l1 EXCEPT !.sender = parts[2]] IN
        IF ~num.ok
        THEN [pc |-> "done", local |-> l2, resp |-> Response(500, E_ValueError)]
        ELSE LET l3 == [l2 EXCEPT !.num_media = num.val] IN
        IF ~has_media(num.val)
        THEN [pc |-> "done", local |-> l3, resp |-> Response(200, "OK")]
        ELSE LET l4 == [l3 EXCEPT !.media_type = media_type] IN
        IF ~is_audio(media_type)
        THEN [pc |-> "done", local |-> l4, resp |-> Response(200, "OK")]
        ELSE [pc |-> "get", local |-> [l4 EXCEPT !.media_url = media_url],
              resp |-> NoResp]

\* Variant: the decorator calls the handler whatever the validator said.
decorated_function_unchecked(q) == webhook_entry(q)

\* validate_twilio_request(webhook): the decorator around the handler.
decorated_function(q) ==
    LET twilio_signature == Get(q.headers, "X-Twilio-Signature", EmptyStr)
    IN  IF ~validate(q.url, q.form, twilio_signature)
        THEN [pc |-> "done", local |-> NoLocal, resp |-> Response(403, "Forbidden")]
        ELSE webhook_entry(q)

\* Variant: the decorator line is active on the route.
route_webhook_validated(q) == decorated_function(q)

\* @app.route("/webhook"): the decorator line is commented out, the route
\* is bound to the bare handler.
route_webhook(q) == webhook_entry(q)

----------------------------------------------------------------------------
\* State

\* The last /status exchange; `busy` records whether a /webhook run was in
\* progress when it was served.
NoStatus == [resp |-> NoResp, busy |-> FALSE, count |-> 0, sid |-> EmptyStr, st |-> EmptyStr]

InFlight(h) == pc[h] \notin {"idle", "done"}

Init ==
    /\ req = [h \in Handlers |-> NoRequest]
    /\ pc = [h \in Handlers |-> "idle"]
    /\ local = [h \in Handlers |-> NoLocal]
    /\ resp = [h \in Handlers |-> NoResp]
    /\ calls = [h \in Handlers |-> <<>>]
    /\ disk = [f \in TempFiles |-> NoFile]
    /\ status = NoStatus

\* Variant: the handler catches everything but the UnboundLocalError, which
\* leaves it without a response.
Return_escapes(h, code, body) ==
    IF body = E_UnboundLocalError
    THEN /\ pc' = [pc EXCEPT ![h] = "crashed"]
         /\ UNCHANGED resp
    ELSE /\ pc' = [pc EXCEPT ![h] = "done"]
         /\ resp' = [resp EXCEPT ![h] = Response(code, body)]

\* return ..., 200 / return str(e), 500
Return(h, code, body) ==
    /\ pc' = [pc EXCEPT ![h] = "done"]
    /\ resp' = [resp EXCEPT ![h] = Response(code, body)]

Goto(h, label) ==
    /\ pc' = [pc EXCEPT ![h] = label]
    /\ UNCHANGED resp

Log(h, c) == calls' = [calls EXCEPT ![h] = Append(@, c)]

\* A request arrives and thread h runs the handler up to the pipeline.
Accept(h, q, e) ==
    /\ pc[h] = "idle"
    /\ req' = [req EXCEPT ![h] = q]
    /\ pc' = [pc EXCEPT ![h] = e.pc]
    /\ local' = [local EXCEPT ![h] = e.local]
    /\ resp' = [resp EXCEPT ![h] = e.resp]
    /\ UNCHANGED <<calls, disk, status>>

webhook(h) == \E q \in ConcRequests : Accept(h, q, route_webhook(q))

\* What leaves download_audio's except block: it logs the error, then reads
\* `response`, which is unbound when requests.get itself raised.
download_error(e, response_bound) ==
    IF response_bound THEN e ELSE E_UnboundLocalError

\* Variant: temp_audio.ogg is opened for writing before the status of the
\* response is checked, so a bad status leaves it truncated.
requests_get_truncates(h) ==
    /\ pc[h] = "get"
    /\ LET url == local[h].media_url IN
       \/ \E e \in (IF url = EmptyStr THEN {E_MissingSchema} ELSE {E_ConnectionError}) :
            /\ Log(h, Call("requests.get", "", NoData, EmptyStr, EmptyStr, e))
            /\ Return(h, 500, download_error(e, FALSE))
            /\ UNCHANGED <<local, disk>>
       \/ /\ url # EmptyStr
          /\ Log(h, Call("requests.get", "", NoData, EmptyStr, EmptyStr, E_HTTPError))
          /\ Return(h, 500, download_error(E_HTTPError, TRUE))
          /\ disk' = [disk EXCEPT ![TEMP_OGG] = File(NoData)]
          /\ UNCHANGED local
       \/ /\ url # EmptyStr
          /\ \E b \in BOOLEAN :
               LET content == [by |-> h, ok |-> b] IN
               /\ Log(h, Call("requests.get", "", content, EmptyStr, EmptyStr, ""))
               /\ local' = [local EXCEPT ![h].content = content]
          /\ Goto(h, "write_ogg")
          /\ UNCHANGED disk
    /\ UNCHANGED <<req, status>>

\* requests.get(url, auth=auth); response.raise_for_status()
requests_get(h) ==
    /\ pc[h] = "get"
    /\ LET url == local[h].media_url IN
       \/ \E e \in (IF url = EmptyStr THEN {E_MissingSchema} ELSE {E_ConnectionError}) :
            /\ Log(h, Call("requests.get", "", NoData, EmptyStr, EmptyStr, e))
            /\ Return(h, 500, download_error(e, FALSE))
            /\ UNCHANGED local
       \/ /\ url # EmptyStr
          /\ Log(h, Call("requests.get", "", NoData, EmptyStr, EmptyStr, E_HTTPError))
          /\ Return(h, 500, download_error(E_HTTPError, TRUE))
          /\ UNCHANGED local
       \/ /\ url # EmptyStr
          /\ \E b \in BOOLEAN :
               LET content == [by |-> h, ok |-> b] IN
               /\ Log(h, Call("requests.get", "", content, EmptyStr, EmptyStr, ""))
               /\ local' = [local EXCEPT ![h].content = content]
          /\ Goto(h, "write_ogg")
    /\ UNCHANGED <<req, disk, status>>

\* with open("temp_audio.ogg", "wb") as f: f.write(response.content)
write_ogg(h) ==
    /\ pc[h] = "write_ogg"
    /\ disk' = [disk EXCEPT ![TEMP_OGG] = File(local[h].content)]
    /\ Log(h, Call("write", TEMP_OGG, local[h].content, EmptyStr, EmptyStr, ""))
    /\ Goto(h, "from_ogg")
    /\ UNCHANGED <<req, local, status>>

\* AudioSegment.from_ogg("temp_audio.ogg")
from_ogg(h) ==
    /\ pc[h] = "from_ogg"
    /\ LET f == disk[TEMP_OGG] IN
       \/ /\ ~f.exists
          /\ Log(h, Call("read", TEMP_OGG, NoData, EmptyStr, EmptyStr, E_FileNotFound))
          /\ Return(h, 500, download_error(E_FileNotFound, TRUE))
          /\ UNCHANGED local
       \/ /\ f.exists /\ ~f.data.ok
          /\ Log(h, Call("read", TEMP_OGG, f.data, EmptyStr, EmptyStr, E_CouldntDecode))
          /\ Return(h, 500, download_error(E_CouldntDecode, TRUE))
          /\ UNCHANGED local
       \/ /\ f.exists /\ f.data.ok
          /\ Log(h, Call("read", TEMP_OGG, f.data, EmptyStr, EmptyStr, ""))
          /\ local' = [local EXCEPT ![h].audio = f.data]
          /\ Goto(h, "export")
    /\ UNCHANGED <<req, disk, status>>

\* Variant: an existing temp_audio.wav is kept instead of being overwritten.
export_wav_keep_existing(h) ==
    /\ pc[h] = "export"
    /\ disk' = IF disk[TEMP_WAV].exists THEN disk
               ELSE [disk EXCEPT ![TEMP_WAV] = File(local[h].audio)]
    /\ Log(h, Call("write", TEMP_WAV, local[h].audio, EmptyStr, EmptyStr, ""))
    /\ Goto(h, "transcribe")
    /\ UNCHANGED <<req, local, status>>

\* audio.export("temp_audio.wav", format="wav"); return "temp_audio.wav"
export_wav(h) ==
    /\ pc[h] = "export"
    /\ disk' = [disk EXCEPT ![TEMP_WAV] = File(local[h].audio)]
    /\ Log(h, Call("write", TEMP_WAV, local[h].audio, EmptyStr, EmptyStr, ""))
    /\ Goto(h, "transcribe")
    /\ UNCHANGED <<req, local, status>>

\* transcribe_audio(audio_file)
transcribe_audio(h) ==
    /\ pc[h] = "transcribe"
    /\ LET f == disk[TEMP_WAV] IN
       \/ /\ ~f.exists
          /\ Log(h, Call("transcribe", TEMP_WAV, NoData, EmptyStr, EmptyStr, E_FileNotFound))
          /\ Return(h, 500, E_FileNotFound)
          /\ UNCHANGED local
       \/ /\ f.exists
          /\ Log(h, Call("transcribe", TEMP_WAV, f.data, EmptyStr, EmptyStr, E_Transcribe))
          /\ Return(h, 500, E_Transcribe)
          /\ UNCHANGED local
       \/ /\ f.exists
          /\ Log(h, Call("transcribe", TEMP_WAV, f.data, whisper_text(f.data), EmptyStr, ""))
          /\ local' = [local EXCEPT ![h].transcription = whisper_text(f.data)]
          /\ Goto(h, "create")
    /\ UNCHANGED <<req, disk, status>>

\* Variant: a failed send is tried again.
messages_create_retry(h) ==
    /\ pc[h] = "create"
    /\ LET to_number == S_whatsapp \o <<":">> \o local[h].sender
           body == local[h].transcription IN
       \/ /\ Log(h, Call("messages.create", "", NoData, body, to_number, E_Twilio))
          /\ Goto(h, "create")
       \/ /\ Log(h, Call("messages.create", "", NoData, body, to_number, ""))
          /\ Goto(h, "rm_ogg")
    /\ UNCHANGED <<req, local, disk, status>>

\* Variant: the temporary files are removed after a failed send as well.
messages_create_then_cleanup(h) ==
    /\ pc[h] = "create"
    /\ LET to_number == S_whatsapp \o <<":">> \o local[h].sender
           body == local[h].transcription IN
       \/ /\ Log(h, Call("messages.create", "", NoData, body, to_number, E_Twilio))
          /\ Goto(h, "rm_ogg")
       \/ /\ Log(h, Call("messages.create", "", NoData, body, to_number, ""))
          /\ Goto(h, "rm_ogg")
    /\ UNCHANGED <<req, local, disk, status>>

\* twilio_client.messages.create(body=transcription, from_=..., to=to_number)
messages_create(h) ==
    /\ pc[h] = "create"
    /\ LET to_number == S_whatsapp \o <<":">> \o local[h].sender
           body == local[h].transcription IN
       \/ /\ Log(h, Call("messages.create", "", NoData, body, to_number, E_Twilio))
          /\ Return(h, 500, E_Twilio)
       \/ /\ Log(h, Call("messages.create", "", NoData, body, to_number, ""))
          /\ Goto(h, "rm_ogg")
    /\ UNCHANGED <<req, local, disk, status>>

\* os.remove("temp_audio.ogg")
remove_ogg(h) ==
    /\ pc[h] = "rm_ogg"
    /\ \/ /\ disk[TEMP_OGG].exists
          /\ disk' = [disk EXCEPT ![TEMP_OGG] = NoFile]
          /\ Log(h, Call("os.remove", TEMP_OGG, NoData, EmptyStr, EmptyStr, ""))
          /\ Goto(h, "rm_wav")
       \/ /\ ~disk[TEMP_OGG].exists
          /\ Log(h, Call("os.remove", TEMP_OGG, NoData, EmptyStr, EmptyStr, E_FileNotFound))
          /\ Return(h, 500, E_FileNotFound)
          /\ UNCHANGED disk
    /\ UNCHANGED <<req, local, status>>

\* Variant: a temp_audio.wav that is already gone is not an error.
remove_wav_ignore_missing(h) ==
    /\ pc[h] = "rm_wav"
    /\ \/ /\ disk[TEMP_WAV].exists
          /\ disk' = [disk EXCEPT ![TEMP_WAV] = NoFile]
          /\ Log(h, Call("os.remove", TEMP_WAV, NoData, EmptyStr, EmptyStr, ""))
          /\ Return(h, 200, "OK")
       \/ /\ ~disk[TEMP_WAV].exists
          /\ Log(h, Call("os.remove", TEMP_WAV, NoData, EmptyStr, EmptyStr, E_FileNotFound))
          /\ Return(h, 200, "OK")
          /\ UNCHANGED disk
    /\ UNCHANGED <<req, local, status>>

\* os.remove("temp_audio.wav"); return "OK", 200
remove_wav(h) ==
    /\ pc[h] = "rm_wav"
    /\ \/ /\ disk[TEMP_WAV].exists
          /\ disk' = [disk EXCEPT ![TEMP_WAV] = NoFile]
          /\ Log(h, Call("os.remove", TEMP_WAV, NoData, EmptyStr, EmptyStr, ""))
          /\ Return(h, 200, "OK")
       \/ /\ ~disk[TEMP_WAV].exists
          /\ Log(h, Call("os.remove", TEMP_WAV, NoData, EmptyStr, EmptyStr, E_FileNotFound))
          /\ Return(h, 500, E_FileNotFound)
          /\ UNCHANGED disk
    /\ UNCHANGED <<req, local, status>>

Pipeline(h) ==
    \/ requests_get(h)
    \/ write_ogg(h)
    \/ from_ogg(h)
    \/ export_wav(h)
    \/ transcribe_audio(h)
    \/ messages_create(h)
    \/ remove_ogg(h)
    \/ remove_wav(h)

\* Status callbacks served while the model runs.
MaxStatus == 1

SidValues == {Absent, <<"S", "M", "1", "2", "3">>}
StatusValues == {Absent, <<"d", "e", "l", "i", "v", "e", "r", "e", "d">>}

\* Variant: the status callback also clears the temporary files.
message_status_cleanup ==
    /\ status.count < MaxStatus
    /\ status' = [NoStatus EXCEPT !.count = status.count + 1,
                                  !.busy = \E h \in Handlers : InFlight(h),
                                  !.resp = Response(200, "OK")]
    /\ disk' = [f \in TempFiles |-> NoFile]
    /\ UNCHANGED <<req, pc, local, resp, calls>>

\* message_status(): POST /status
message_status ==
    /\ status.count < MaxStatus
    /\ \E sid \in SidValues, st \in StatusValues :
         LET values == [k \in {x \in {"MessageSid", "MessageStatus"} :
                                  (IF x = "MessageSid" THEN sid ELSE st) # Absent} |->
                           IF k = "MessageSid" THEN sid ELSE st]
             message_sid == Get(values, "MessageSid", EmptyStr)
             message_status_ == Get(values, "MessageStatus", EmptyStr)
         IN  status' = [resp |-> Response(200, "OK"),
                        busy |-> \E h \in Handlers : InFlight(h),
                        count |-> status.count + 1,
                        sid |-> message_sid,
                        st |-> message_status_]
    /\ UNCHANGED <<req, pc, local, resp, calls, disk>>

Next ==
    \/ \E h \in Handlers : webhook(h)
    \/ \E h \in Handlers : Pipeline(h)

Spec == Init /\ [][Next]_vars

----------------------------------------------------------------------------
\* One request served alone, drawn from every combination of the fields,
\* on a disk as earlier runs may have left it, with status callbacks
\* arriving at any moment of the run.

Solo == CHOOSE h \in Handlers : \A g \in Handlers : h <= g

StaleDisks ==
    {[f \in TempFiles |-> IF f = TEMP_OGG THEN o ELSE w] :
        o \in {NoFile, File([by |-> 0, ok |-> TRUE]), File([by |-> 0, ok |-> FALSE])},
        w \in {NoFile, File([by |-> 0, ok |-> TRUE])}}

InitSingle ==
    /\ req = [h \in Handlers |-> NoRequest]
    /\ pc = [h \in Handlers |-> "idle"]
    /\ local = [h \in Handlers |-> NoLocal]
    /\ resp = [h \in Handlers |-> NoResp]
    /\ calls = [h \in Handlers |-> <<>>]
    /\ disk \in StaleDisks
    /\ status = NoStatus

webhook_single == \E q \in AllRequests : Accept(Solo, q, route_webhook(q))

NextSingle ==
    \/ webhook_single
    \/ Pipeline(Solo)
    \/ message_status

SpecSingle == InitSingle /\ [][NextSingle]_vars

\* The same, with the handler wrapped by validate_twilio_request.
webhook_validated == \E q \in AllRequests : Accept(Solo, q, decorated_function(q))

NextValidated ==
    \/ webhook_validated
    \/ Pipeline(Solo)

SpecValidated == InitSingle /\ [][NextValidated]_vars

----------------------------------------------------------------------------
\* Vocabulary of the properties

Invoked(h, op) == \E i \in DOMAIN calls[h] : calls[h][i].op = op

Succeeded(h, op) ==
    \E i \in DOMAIN calls[h] : calls[h][i].op = op /\ calls[h][i].err = ""

Fetched(h) == Invoked(h, "requests.get")
Transcribed(h) == Invoked(h, "transcribe")
Dispatched(h) == Invoked(h, "messages.create")

NoOutboundCall(h) == ~Fetched(h) /\ ~Transcribed(h) /\ ~Dispatched(h)

Wrote(h, f) ==
    \E i \in DOMAIN calls[h] : calls[h][i].op = "write" /\ calls[h][i].file = f

Field(q, key) == Get(q.form, key, EmptyStr)

HasColon(s) == \E i \in 1..Len(s) : s[i] = ":"

\* The field is present and is the decimal numeral of n.
NumMediaIs(q, n) ==
    /\ "NumMedia" \in DOMAIN q.form
    /\ ParseInt(q.form["NumMedia"]) = [ok |-> TRUE, val |-> n]

NumMediaUnparseable(q) ==
    "NumMedia" \in DOMAIN q.form /\ ~ParseInt(q.form["NumMedia"]).ok

\* The text after the channel prefix of a From value that has one.
SenderIdentifier(from) ==
    LET k == CHOOSE i \in 1..Len(from) :
                 from[i] = ":" /\ \A j \in 1..(i - 1) : from[j] # ":"
    IN  SubSeq(from, k + 1, Len(from))

SignatureValid(q) ==
    /\ "X-Twilio-Signature" \in DOMAIN q.headers
    /\ q.headers["X-Twilio-Signature"] = compute_signature(q.url, q.form)

OK200 == Response(200, "OK")

----------------------------------------------------------------------------
\* C1 as stated: every request with NumMedia = 0, whatever its Body and From,
\* is answered 200 and invokes neither download_audio nor transcribe_audio
\* nor messages.create.
C1_AnyFromReturns200 ==
    \A h \in Handlers :
        (pc[h] # "idle" /\ NumMediaIs(req[h], 0)) =>
            /\ pc[h] = "done"
            /\ resp[h] = OK200
            /\ NoOutboundCall(h)

\* C1 as amended: a request with NumMedia = 0 never invokes download_audio,
\* transcribe_audio or messages.create, whatever its Body and From; it is
\* answered 200 "OK" when From contains ':' and 500 when it does not.
C1_NoMediaNoCalls ==
    \A h \in Handlers :
        (pc[h] # "idle" /\ NumMediaIs(req[h], 0)) =>
            /\ pc[h] = "done"
            /\ NoOutboundCall(h)
            /\ calls[h] = <<>>
            /\ resp[h] = IF HasColon(Field(req[h], "From"))
                         THEN OK200
                         ELSE Response(500, E_IndexError)

C1_Witness ==
    \E h \in Handlers :
        /\ pc[h] = "done"
        /\ NumMediaIs(req[h], 0)
        /\ Field(req[h], "Body") = S_hello
        /\ Field(req[h], "MediaContentType0") = S_audio_ogg
        /\ HasColon(Field(req[h], "From"))
        /\ resp[h] = OK200

\* C2 as stated: a request whose MediaContentType0 does not contain 'audio'
\* is answered 200, whatever NumMedia is, with no fetch, no transcribe, no
\* send and no temporary file touched.
C2_AnyNumMediaReturns200 ==
    \A h \in Handlers :
        (pc[h] # "idle" /\ ~Contains(S_audio, Field(req[h], "MediaContentType0"))) =>
            /\ pc[h] = "done"
            /\ resp[h] = OK200
            /\ calls[h] = <<>>

\* C2 as amended: a request whose MediaContentType0 does not contain 'audio'
\* performs no fetch, no transcribe and no send and touches no temporary
\* file, whatever NumMedia is; it is answered 200 "OK" when From contains ':'
\* and NumMedia is absent or an integer, and 500 otherwise.
C2_NonAudioNoCalls ==
    \A h \in Handlers :
        (pc[h] # "idle" /\ ~Contains(S_audio, Field(req[h], "MediaContentType0"))) =>
            /\ pc[h] = "done"
            /\ calls[h] = <<>>
            /\ resp[h] = IF ~HasColon(Field(req[h], "From"))
                         THEN Response(500, E_IndexError)
                         ELSE IF NumMediaUnparseable(req[h])
                         THEN Response(500, E_ValueError)
                         ELSE OK200

C2_Witness ==
    \E h \in Handlers :
        /\ pc[h] = "done"
        /\ NumMediaIs(req[h], 2)
        /\ Field(req[h], "MediaContentType0") = S_image_png
        /\ Field(req[h], "MediaUrl0") = S_media_url
        /\ resp[h] = OK200
        /\ calls[h] = <<>>

----------------------------------------------------------------------------
\* download_audio returned: both files were written by this run.
FetchSucceeded(h) == Wrote(h, TEMP_OGG) /\ Wrote(h, TEMP_WAV)

Creates(h) == {i \in DOMAIN calls[h] : calls[h][i].op = "messages.create"}

TranscriptsReturned(h) ==
    {calls[h][i].text : i \in {j \in DOMAIN calls[h] :
                                  calls[h][j].op = "transcribe" /\ calls[h][j].err = ""}}

\* C3: an audio request whose fetch, transcribe and send all succeed invokes
\* messages.create exactly once, with the text transcribe_audio returned as
\* body and the sender's identifier as destination, and is answered 200 "OK".
C3_RoundTripReturns200 ==
    \A h \in Handlers :
        (/\ pc[h] = "done"
         /\ FetchSucceeded(h)
         /\ Succeeded(h, "transcribe")
         /\ Succeeded(h, "messages.create")) =>
            /\ Cardinality(Creates(h)) = 1
            /\ \A i \in Creates(h) :
                 /\ TranscriptsReturned(h) = {calls[h][i].text}
                 /\ calls[h][i].to =
                      S_whatsapp \o <<":">> \o SenderIdentifier(Field(req[h], "From"))
            /\ resp[h] = OK200

\* C4: when a run has ended, with 200 or with 500, no temporary file that
\* the run wrote is still on disk.
C4_NoArtifactAfterReturn ==
    \A h \in Handlers : \A f \in TempFiles :
        (pc[h] = "done" /\ Wrote(h, f)) => ~disk[f].exists

\* C5: when the media download fails, by a bad status or by the GET raising,
\* the response is 500 with the text of that download error, and neither
\* transcribe_audio nor messages.create is invoked.
C5_DownloadErrorText ==
    \A h \in Handlers :
        (/\ pc[h] = "done"
         /\ calls[h] # <<>>
         /\ calls[h][1].op = "requests.get"
         /\ calls[h][1].err # "") =>
            /\ resp[h] = Response(500, calls[h][1].err)
            /\ ~Transcribed(h)
            /\ ~Dispatched(h)

\* C10: a request answered 500 has sent no WhatsApp reply, also when other
\* requests are handled at the same time.
C10_NoReplyOnFailure ==
    \A h \in Handlers :
        (pc[h] = "done" /\ resp[h].code = 500) => ~Succeeded(h, "messages.create")

----------------------------------------------------------------------------
\* The wrapped handler has started: the request got past the decorator.
BodyRan(h) == pc[h] # "idle" /\ resp[h].code # 403

\* C6: under validate_twilio_request the handler body runs only for a request
\* whose X-Twilio-Signature is the signature of its URL and form; any other
\* request, one without the header included, is answered 403 before any step
\* of the handler.
C6_ValidatedOnly ==
    \A h \in Handlers :
        /\ BodyRan(h) => SignatureValid(req[h])
        /\ (pc[h] # "idle" /\ ~SignatureValid(req[h])) =>
              /\ pc[h] = "done"
              /\ resp[h] = Response(403, "Forbidden")
              /\ local[h] = NoLocal
              /\ calls[h] = <<>>

C6_Witness ==
    \E h \in Handlers :
        /\ pc[h] = "done"
        /\ "X-Twilio-Signature" \notin DOMAIN req[h].headers
        /\ is_audio(Field(req[h], "MediaContentType0"))
        /\ NumMediaIs(req[h], 1)
        /\ resp[h] = Response(403, "Forbidden")

\* C7: on the live /webhook route the signature is not enforced: no request
\* is answered 403, and the handler's course is the same for every
\* X-Twilio-Signature the request could carry (valid, forged or absent).
C7_SignatureIgnored ==
    \A h \in Handlers :
        pc[h] # "idle" =>
            /\ resp[h].code # 403
            /\ \A s \in SigChoices(req[h].form) :
                 route_webhook(MkRequest(req[h].form, s)) = route_webhook(req[h])
            /\ InFlight(h) =>
                 /\ local[h].sender = route_webhook(req[h]).local.sender
                 /\ local[h].media_url = route_webhook(req[h]).local.media_url

C7_Witness ==
    \E h \in Handlers :
        /\ pc[h] = "done"
        /\ ~SignatureValid(req[h])
        /\ FetchSucceeded(h)
        /\ Succeeded(h, "transcribe")
        /\ Succeeded(h, "messages.create")
        /\ resp[h] = OK200

\* C8: POST /status answers 200 "OK" whatever MessageSid and MessageStatus
\* are, and serving it leaves the requests, their progress, their calls
\* and the temporary files as they were.
C8_StatusFrame ==
    [][status' # status =>
          /\ status'.resp = OK200
          /\ UNCHANGED <<req, pc, local, resp, calls, disk>>]_vars

C8_Witness ==
    /\ status.count > 0
    /\ status.busy
    /\ status.sid = EmptyStr
    /\ status.resp = OK200
    /\ disk[TEMP_OGG].exists

\* C9: every error of a /webhook run ends the run with a 500 response; a
\* run that has ended has exactly one response, 200 or 500, and a run that
\* has not ended can take its next step.
C9_Caught(h) ==
    /\ pc[h] \in {"idle", "get", "write_ogg", "from_ogg", "export",
                  "transcribe", "create", "rm_ogg", "rm_wav", "done"}
    /\ pc[h] = "done" => resp[h].code \in {200, 500}
    /\ pc[h] # "done" => resp[h] = NoResp
    /\ (calls[h] # <<>> /\ calls[h][Len(calls[h])].err # "") =>
          (pc[h] = "done" /\ resp[h].code = 500)
    /\ (pc[h] = "done" /\ resp[h].code = 500 /\ calls[h] # <<>>) =>
          calls[h][Len(calls[h])].err # ""
    /\ InFlight(h) => ENABLED Pipeline(h)

C9_AllErrorsCaught ==
    /\ [](\A h \in Handlers : C9_Caught(h))
    /\ [][\A h \in Handlers : resp[h] # NoResp => resp'[h] = resp[h]]_vars

C9_Witness ==
    \E h \in Handlers :
        /\ pc[h] = "done"
        /\ calls[h] # <<>>
        /\ calls[h][1].err = E_ConnectionError
        /\ resp[h] = Response(500, E_UnboundLocalError)

----------------------------------------------------------------------------
\* The audio a handler got from a temporary file it read: decoding reads
\* temp_audio.ogg, transcribing reads temp_audio.wav.
AudioRead(h) ==
    {calls[h][i].data : i \in {j \in DOMAIN calls[h] :
                                  /\ calls[h][j].op \in {"read", "transcribe"}
                                  /\ calls[h][j].err # E_FileNotFound}}

\* C11: requests handled at the same time share no state: whatever a
\* request decodes or passes to the Transcriber is the audio that request
\* downloaded, never a file written by another request.
C11_NoSharedFiles ==
    \A h \in Handlers : \A d \in AudioRead(h) : d.by = h

----------------------------------------------------------------------------
\* C12: within one request messages.create is invoked at most once; when it
\* fails the run ends there with 500 and the send is not tried again.
C12_NoRetry ==
    \A h \in Handlers :
        /\ Cardinality(Creates(h)) <= 1
        /\ \A i \in Creates(h) :
             calls[h][i].err # "" =>
                 /\ i = Len(calls[h])
                 /\ pc[h] = "done"
                 /\ resp[h] = Response(500, calls[h][i].err)

C12_Witness ==
    \E h \in Handlers :
        /\ pc[h] = "done"
        /\ Creates(h) # {}
        /\ ~Succeeded(h, "messages.create")
        /\ resp[h] = Response(500, E_Twilio)

\* Some call before the i-th of handler h is a successful `op` (on `file`).
Before(h, i, op, file) ==
    \E j \in 1..(i - 1) :
        /\ calls[h][j].op = op
        /\ calls[h][j].file = file
        /\ calls[h][j].err = ""

\* C13: the stages of a request come in the order fetch, transcribe, reply,
\* cleanup: the Transcriber is invoked only after download_audio returned,
\* messages.create only after the Transcriber returned a text, the files are
\* removed only after messages.create succeeded, and nothing is invoked
\* after a stage failed.
C13_StageOrder ==
    \A h \in Handlers : \A i \in DOMAIN calls[h] :
        LET c == calls[h][i] IN
        /\ i > 1 => calls[h][i - 1].err = ""
        /\ c.op = "requests.get" => i = 1
        /\ c.op \in {"write", "read"} => Before(h, i, "requests.get", "")
        /\ c.op = "transcribe" =>
              /\ Before(h, i, "write", TEMP_OGG)
              /\ Before(h, i, "read", TEMP_OGG)
              /\ Before(h, i, "write", TEMP_WAV)
        /\ c.op = "messages.create" => Before(h, i, "transcribe", TEMP_WAV)
        /\ c.op = "os.remove" => Before(h, i, "messages.create", "")
        /\ (c.op = "os.remove" /\ c.file = TEMP_WAV) =>
              Before(h, i, "os.remove", TEMP_OGG)

C13_Witness ==
    \E h \in Handlers :
        /\ pc[h] = "done"
        /\ resp[h] = OK200
        /\ Len(calls[h]) = 8
        /\ calls[h][8].op = "os.remove"
        /\ \E g \in Handlers : g # h /\ InFlight(g)

----------------------------------------------------------------------------
\* C14: when the media download comes back with a non-success status,
\* download_audio raises before it writes anything: the request has touched
\* no temporary file before, and the failing step leaves both files, stale
\* ones included, exactly as they were.
C14_BadStatusWritesNothing ==
    [][\A h \in Handlers :
          (/\ pc[h] = "get"
           /\ pc'[h] = "done"
           /\ calls'[h][Len(calls'[h])].err = E_HTTPError) =>
              /\ calls[h] = <<>>
              /\ Len(calls'[h]) = 1
              /\ disk' = disk]_vars

C14_Witness ==
    \E h \in Handlers :
        /\ pc[h] = "done"
        /\ Len(calls[h]) = 1
        /\ calls[h][1].err = E_HTTPError
        /\ resp[h] = Response(500, E_HTTPError)
        /\ disk[TEMP_OGG] = File([by |-> 0, ok |-> TRUE])
        /\ disk[TEMP_WAV] = File([by |-> 0, ok |-> TRUE])

----------------------------------------------------------------------------
\* The text is a decimal integer: an optional sign, then digits only.
IsNumeral(s) ==
    LET b == IF Len(s) > 0 /\ s[1] \in {"+", "-"} THEN Tail(s) ELSE s
    IN  Len(b) > 0 /\ \A i \in 1..Len(b) : b[i] \in Digits

\* From is absent or has no ':', or NumMedia is sent and is not an integer.
Malformed(q) ==
    \/ ~HasColon(Field(q, "From"))
    \/ "NumMedia" \in DOMAIN q.form /\ ~IsNumeral(q.form["NumMedia"])

\* C15: a request whose From is absent or has no ':' separator, or whose
\* NumMedia is not an integer, is answered 500 with the error text, with no
\* fetch, no transcribe, no send and no temporary file touched.
C15_MalformedIs500 ==
    \A h \in Handlers :
        (pc[h] # "idle" /\ Malformed(req[h])) =>
            /\ pc[h] = "done"
            /\ resp[h].code = 500
            /\ resp[h].body \in {E_IndexError, E_ValueError}
            /\ HasColon(Field(req[h], "From")) => resp[h].body = E_ValueError
            /\ NoOutboundCall(h)
            /\ calls[h] = <<>>

C15_Witness ==
    \E h \in Handlers :
        /\ pc[h] = "done"
        /\ Field(req[h], "From") = S_whatsapp \o <<":", "+", "1">>
        /\ Field(req[h], "NumMedia") = <<"1", "x">>
        /\ Field(req[h], "MediaContentType0") = S_audio_ogg
        /\ Field(req[h], "MediaUrl0") = S_media_url
        /\ resp[h] = Response(500, E_ValueError)
        /\ disk[TEMP_OGG].exists

----------------------------------------------------------------------------
CallsOf(h, op) == {i \in DOMAIN calls[h] : calls[h][i].op = op}

\* The request without what it says about a second media item.
FirstItemOnly(q) ==
    [q EXCEPT !.form = [k \in (DOMAIN q.form) \ {"MediaContentType1"} |-> q.form[k]]]

\* C16: only the first media item is processed: the handler's course is
\* decided by MediaContentType0 / MediaUrl0 alone, a request fetches,
\* transcribes and sends at most once each, and when the first item is not
\* audio nothing is processed, also when a second item is audio.
C16_FirstItemOnly ==
    \A h \in Handlers :
        pc[h] # "idle" =>
            /\ Cardinality(CallsOf(h, "requests.get")) <= 1
            /\ Cardinality(CallsOf(h, "transcribe")) <= 1
            /\ Cardinality(CallsOf(h, "messages.create")) <= 1
            /\ route_webhook(req[h]).pc = route_webhook(FirstItemOnly(req[h])).pc
            /\ route_webhook(req[h]).local = route_webhook(FirstItemOnly(req[h])).local
            /\ ~Contains(S_audio, Field(req[h], "MediaContentType0")) =>
                  (pc[h] = "done" /\ calls[h] = <<>>)
            /\ InFlight(h) =>
                  /\ local[h].media_type = Field(req[h], "MediaContentType0")
                  /\ local[h].media_url = Field(req[h], "MediaUrl0")

C16_Witness ==
    \E h \in Handlers :
        /\ pc[h] = "done"
        /\ NumMediaIs(req[h], 2)
        /\ Field(req[h], "MediaContentType0") = S_image_png
        /\ Field(req[h], "MediaContentType1") = S_audio_ogg
        /\ resp[h] = OK200
        /\ calls[h] = <<>>

----------------------------------------------------------------------------
\* NumMedia >= 1 and MediaContentType0 contains 'audio'.
AudioRequest(q) ==
    /\ "NumMedia" \in DOMAIN q.form
    /\ IsNumeral(q.form["NumMedia"])
    /\ \E n \in 1..9 : NumMediaIs(q, n)
    /\ Contains(S_audio, Field(q, "MediaContentType0"))

Removed(h, f) ==
    \E i \in DOMAIN calls[h] :
        calls[h][i].op = "os.remove" /\ calls[h][i].file = f /\ calls[h][i].err = ""

FullSuccess(h) ==
    /\ FetchSucceeded(h)
    /\ Succeeded(h, "transcribe")
    /\ Succeeded(h, "messages.create")
    /\ Removed(h, TEMP_OGG)
    /\ Removed(h, TEMP_WAV)

\* C17: an audio request is answered 200 only on full success, that is when
\* its fetch, transcribe and send succeeded and it deleted both temp_audio.ogg
\* and temp_audio.wav; every other outcome of an audio request is 500.
C17_OkOnlyOnFullSuccess ==
    \A h \in Handlers :
        (pc[h] = "done" /\ AudioRequest(req[h])) =>
            /\ resp[h].code \in {200, 500}
            /\ resp[h].code = 200 <=> FullSuccess(h)
            /\ resp[h].code = 200 => resp[h] = OK200

C17_Witness ==
    \E h, g \in Handlers :
        /\ pc[h] = "done" /\ pc[g] = "done"
        /\ AudioRequest(req[h]) /\ AudioRequest(req[g])
        /\ FullSuccess(h)
        /\ resp[h] = OK200
        /\ Succeeded(g, "messages.create")
        /\ ~FullSuccess(g)
        /\ resp[g] = Response(500, E_FileNotFound)

----------------------------------------------------------------------------
\* Requests served one at a time: a request is taken up only when no other
\* is being handled.  Files left behind by a failed run stay on disk for the
\* runs after it.
webhook_alone(h) ==
    /\ \A g \in Handlers : ~InFlight(g)
    /\ webhook(h)

NextSeq ==
    \/ \E h \in Handlers : webhook_alone(h)
    \/ \E h \in Handlers : Pipeline(h)

SpecSeq == Init /\ [][NextSeq]_vars

\* C18: over requests handled one at a time, failed runs and the files they
\* left included, every invocation of the Transcriber finds temp_audio.wav
\* and gets the decoded audio of the current request's own download.
C18_NoStaleAudio ==
    \A h \in Handlers : \A i \in CallsOf(h, "transcribe") :
        /\ calls[h][i].err # E_FileNotFound
        /\ calls[h][i].data = local[h].content
        /\ calls[h][i].data = [by |-> h, ok |-> TRUE]

C18_Witness ==
    \E h, g \in Handlers :
        /\ g # h
        /\ pc[g] = "done"
        /\ resp[g] = Response(500, E_Transcribe)
        /\ Wrote(g, TEMP_WAV)
        /\ pc[h] = "create"
        /\ CallsOf(h, "transcribe") # {}

----------------------------------------------------------------------------
\* The From value has the form 'whatsapp:<identifier>'.
HasWhatsappPrefix(from) ==
    /\ Len(from) > Len(S_whatsapp)
    /\ SubSeq(from, 1, Len(S_whatsapp) + 1) = S_whatsapp \o <<":">>

\* C19: the destination of the reply is the From value of the request
\* whenever From is 'whatsapp:<identifier>', for every identifier, those
\* that contain ':' included.
C19_DestinationIsFrom ==
    \A h \in Handlers : \A i \in Creates(h) :
        HasWhatsappPrefix(Field(req[h], "From")) =>
            calls[h][i].to = Field(req[h], "From")

====
